---- MODULE Spec2Model ----
(***************************************************************************)
(* A model of the OCR recognition service: OCRService.process and its      *)
(* best-result selection (app/services/ocr_service.py), the variant        *)
(* generator (app/services/preprocess.py), the session scope               *)
(* (app/database.py), the mapped rows (app/models.py), the readers         *)
(* _load_runs / _load_run and format_confidence (app/main.py).             *)
(***************************************************************************)
EXTENDS Integers, Sequences, FiniteSets, TLC

VARIABLES
    sel_in,        \* select: run.text_results as enumerated
    sel_pi,        \* select: a permutation of the positions of sel_in
    sel_out,       \* select: what _select_best_result returned for sel_in
    sel_perm_out,  \* select: what it returned for sel_in permuted by sel_pi
    gen_image,     \* generate: the source image
    gen_a,         \* generate: allowed_labels of the first call
    gen_b,         \* generate: allowed_labels of the second call
    gen_out_a,     \* generate: the list the first call returned
    gen_out_b,     \* generate: the list the second call returned
    fmt_row,       \* format: the stored text result whose confidence is shown
    fmt_out,       \* format: what format_confidence returned for it
    pd_engine,     \* paddle: a PaddleOCREngine instance: self.lang and self._ocr
    pd_builds,     \* paddle: how many PaddleOCR recognizers it has constructed
    pd_last,       \* paddle: the last call made on it, with its argument and outcome
    pd_calls,      \* paddle: how many calls have been made on it
    pc,            \* process: where each call of OCRService.process stands
    call,          \* process: the arguments of each call (file, engine_name, lang)
    loc,           \* process: the local variables of each call
    calls,         \* process: the calls of engine.run: the image, and self.lang
    tx,            \* the rows each call's session has flushed and not committed
    db,            \* the committed tables ocr_runs, ocr_images, ocr_text_results
    writer,        \* the call whose session holds the database's write lock
    files,         \* the files written under settings.data_dir, and by which call
    uuid_next,     \* the next value uuid.uuid4() returns (never one it returned)
    observed       \* what the reader's last _load_runs / _load_run returned

procVars == <<pc, call, loc, calls, tx, db, writer, files, uuid_next, observed>>
selVars == <<sel_in, sel_pi, sel_out, sel_perm_out>>
genVars == <<gen_image, gen_a, gen_b, gen_out_a, gen_out_b>>
fmtVars == <<fmt_row, fmt_out>>
paddleVars == <<pd_engine, pd_builds, pd_last, pd_calls>>
pureVars == <<selVars, genVars, fmtVars, paddleVars>>

-----------------------------------------------------------------------------
(* Optional[T]: None is the empty tuple, a present value x is <<x>>.       *)
None == <<>>
Some(x) == <<x>>
Val(o) == o[1]

(* A call that has not been made yet / has returned `value`.               *)
NotCalled == [called |-> FALSE]
Returned(value) == [called |-> TRUE, value |-> value]

Reverse(s) == [i \in 1..Len(s) |-> s[Len(s) + 1 - i]]

-----------------------------------------------------------------------------
(* OCRService._select_best_result                                          *)

(* The sort key of one OCRTextResult: (confidence or 0.0, len(text)).      *)
(* Confidences are counted in hundredths; a text is a tuple of characters. *)
ConfidenceKey(r) == IF r.confidence = None THEN 0 ELSE Val(r.confidence)
LengthKey(r) == Len(r.text)

(* Python's tuple order on the keys of two entries of the list.            *)
KeyLessConfidenceOnly(a, b) == ConfidenceKey(a.r) < ConfidenceKey(b.r)
KeyLess(a, b) ==
    \/ ConfidenceKey(a.r) < ConfidenceKey(b.r)
    \/ /\ ConfidenceKey(a.r) = ConfidenceKey(b.r)
       /\ LengthKey(a.r) < LengthKey(b.r)

(* list.sort, ascending: a stable sort (an entry goes after every entry    *)
(* whose key is not greater).                                              *)
RECURSIVE InsertAscending(_, _)
InsertAscending(s, x) ==
    IF s = <<>> THEN <<x>>
    ELSE IF KeyLess(x, Head(s)) THEN <<x>> \o s
    ELSE <<Head(s)>> \o InsertAscending(Tail(s), x)

RECURSIVE SortAscending(_)
SortAscending(s) ==
    IF s = <<>> THEN <<>>
    ELSE InsertAscending(SortAscending(SubSeq(s, 1, Len(s) - 1)), s[Len(s)])

(* sorted(..., reverse=True): CPython reverses the list, sorts it stably   *)
(* ascending and reverses it again, so equal keys keep their order.        *)
SortedThenReversed(s) == Reverse(SortAscending(s))
SortedReverse(s) == Reverse(SortAscending(Reverse(s)))

(* The entries of run.text_results, each with its position in the list.    *)
Enumerated(rs) == [i \in 1..Len(rs) |-> [pos |-> i, r |-> rs[i]]]

(* Position in rs of the object _select_best_result returns, 0 for None.   *)
SelectPosIgnoringAbsent(rs) ==
    LET scored == SelectSeq(Enumerated(rs), LAMBDA e : e.r.confidence # None)
    IN IF scored = <<>> THEN 0 ELSE SortedReverse(scored)[1].pos
SelectPos(rs) ==
    IF rs = <<>> THEN 0 ELSE SortedReverse(Enumerated(rs))[1].pos

select_best_result(rs) ==
    IF SelectPos(rs) = 0 THEN None ELSE Some(rs[SelectPos(rs)])

-----------------------------------------------------------------------------
(* ImagePreprocessor.generate                                              *)

(* An image is the source it was loaded from, its mode, and the chain of   *)
(* PIL operations applied to it since; PIL's operations are deterministic  *)
(* functions of their input image.                                         *)
Image(src) == [src |-> src, mode |-> "RGB", ops |-> <<>>]
PIL(op, image, mode) == [image EXCEPT !.mode = mode, !.ops = Append(@, op)]

identity(image) == image
to_grayscale(image) == PIL("grayscale", image, "L")
enhance_contrast(image) == PIL("autocontrast", image, image.mode)
median_filter(image) == PIL("MedianFilter3", image, image.mode)
threshold(image) ==
    LET gray == IF image.mode # "L" THEN to_grayscale(image) ELSE image
    IN PIL("convertL", PIL("point160", gray, "1"), "L")

steps == <<"original", "grayscale", "contrast", "median_filter", "threshold">>
StepLabels == {steps[i] : i \in 1..Len(steps)}

StepFn(label, image) ==
    CASE label = "original" -> identity(image)
      [] label = "grayscale" -> to_grayscale(image)
      [] label = "contrast" -> enhance_contrast(image)
      [] label = "median_filter" -> median_filter(image)
      [] label = "threshold" -> threshold(image)

Allowed(allowed, label) == allowed = None \/ label \in Val(allowed)

(* The loop of generate from step k on: `current` is the previous step's   *)
(* output; the step's output is emitted when its label is allowed.         *)
RECURSIVE GenerateFromSkipping(_, _, _, _)
GenerateFromSkipping(k, image, current, allowed) ==
    IF k > Len(steps) THEN <<>>
    ELSE LET label == steps[k]
             base_image == IF label = "original" THEN image ELSE current
             next_image == StepFn(label, base_image)
         IN IF Allowed(allowed, label)
            THEN <<[label |-> label, image |-> next_image]>>
                     \o GenerateFromSkipping(k + 1, image, next_image, allowed)
            ELSE GenerateFromSkipping(k + 1, image, current, allowed)

RECURSIVE GenerateFrom(_, _, _, _)
GenerateFrom(k, image, current, allowed) ==
    IF k > Len(steps) THEN <<>>
    ELSE LET label == steps[k]
             base_image == IF label = "original" THEN image ELSE current
             next_image == StepFn(label, base_image)
             emitted == IF Allowed(allowed, label)
                        THEN <<[label |-> label, image |-> next_image]>>
                        ELSE <<>>
         IN emitted \o GenerateFrom(k + 1, image, next_image, allowed)

generate(image, allowed) == GenerateFrom(1, image, image, allowed)

-----------------------------------------------------------------------------
(* Strings the model needs to take apart are kept on finite tables.        *)

(* str.lower on the file suffixes the model uploads.                       *)
Lower(s) == CASE s = ".PNG" -> ".png"
              [] s = ".Pdf" -> ".pdf"
              [] OTHER -> s

(* str.strip on the language hints the model sends.                        *)
Strip(s) == CASE s = " " -> ""
              [] s = " eng " -> "eng"
              [] OTHER -> s

DigitChars == <<"0", "1", "2", "3", "4", "5", "6", "7", "8", "9">>

(* str(n) for n >= 0, as a tuple of digit characters.                      *)
RECURSIVE Decimal(_)
Decimal(n) ==
    IF n < 10 THEN <<DigitChars[n + 1]>>
    ELSE Decimal(n \div 10) \o <<DigitChars[(n % 10) + 1]>>

(* f"{n:03d}"                                                              *)
Decimal03(n) ==
    LET d == Decimal(n)
    IN IF Len(d) >= 3 THEN d ELSE [i \in 1..(3 - Len(d)) |-> "0"] \o d

-----------------------------------------------------------------------------
(* app/main.py: format_confidence.  A confidence given to it is counted in *)
(* units of 1/One; the values the model gives it are binary fractions or   *)
(* have at most two decimals, so that the float arithmetic is exact.       *)
One == 10000

Min(a, b) == IF a < b THEN a ELSE b

(* round(n / d) to the nearest integer, a tie to the even one: what        *)
(* Python's format does with the exact value of the float.                 *)
RoundHalfEven(n, d) ==
    LET q == n \div d
        r == n % d
    IN IF 2 * r > d \/ (2 * r = d /\ q % 2 = 1) THEN q + 1 ELSE q

(* f"{x:.2f}" for x >= 0 counted in 1/One                                  *)
Format2f(x) ==
    LET h == RoundHalfEven(x * 100, One)
    IN Decimal(h \div 100)
         \o <<".", DigitChars[((h \div 10) % 10) + 1], DigitChars[(h % 10) + 1]>>

(* if normalized > 1: min(normalized, 100.0) else: normalized *= 100       *)
NormalizedUncapped(value) == IF value > One THEN value ELSE value * 100
Normalized(value) == IF value > One THEN Min(value, 100 * One) ELSE value * 100

format_confidence(value) ==
    IF value = None THEN None
    ELSE Some(Format2f(Normalized(Val(value))) \o <<"%">>)

-----------------------------------------------------------------------------
(* app/config.py, app/services/file_processing.py                          *)

tess_lang == "vie+eng"
paddle_lang == "vi"

SUPPORTED_IMAGE_EXTENSIONS == {".png", ".jpg", ".jpeg", ".tiff", ".bmp"}
SUPPORTED_DOCUMENT_EXTENSIONS == {".pdf", ".doc", ".docx"}

(* A path under settings.data_dir: the run directory (the uuid), the       *)
(* sub-directory and the file name, a tuple of strings.                    *)
Path(run_dir, sub, name) == [run |-> run_dir, sub |-> sub, name |-> name]

(* original_dir / file.filename.  file.filename is what the client sent:   *)
(* a directory part (none, "/srv", "../..") and the name.  pathlib's `/`   *)
(* gives the right operand itself when it is absolute, and the file system *)
(* follows "..": such a path is in no run directory.                       *)
OutsideRuns == 0
OriginalPath(run_dir, file) ==
    CASE file.dir = "" -> Path(run_dir, "original", <<file.stem, file.ext>>)
      [] file.dir = "/srv" -> Path(OutsideRuns, "/srv", <<file.stem, file.ext>>)
      [] file.dir = "../.." -> Path(OutsideRuns, ".", <<file.stem, file.ext>>)

(* ensure_pdf: output_dir / f"{path.stem}.pdf"                             *)
ConvertedPath(run_dir, file) == Path(run_dir, "converted", <<file.stem, ".pdf">>)

(* pdf_to_images: output_dir / f"page_{index:03d}.png", index from 1       *)
PagePath(run_dir, index) ==
    Path(run_dir, "pages", <<"page", "_">> \o Decimal03(index) \o <<".png">>)
pdf_to_images(run_dir, n) == [i \in 1..n |-> PagePath(run_dir, i)]

(* load_image: the RGB image read from the path                            *)
load_image(path) == Image(path)

-----------------------------------------------------------------------------
(* app/models.py: the rows of the three tables                             *)

(* The attributes the mapped class OCRRun has (its columns and its two     *)
(* relationships).                                                         *)
OCRRunAttributes ==
    {"id", "created_at", "engine", "original_file_path", "converted_file_path",
     "summary_text", "best_confidence", "images", "text_results"}

(* OCRRun(...) is the constructor declarative_base() gives the mapped     *)
(* classes: it sets each keyword on the instance and raises TypeError for  *)
(* a keyword that is no attribute of the class.  process passes `language`,*)
(* which OCRRun does not map.  The model keeps, beside the TypeError, the  *)
(* construction going through, so that the rest of process is explored;    *)
(* the value is then held by the instance and by no column.                *)
ConstructorOutcomes(kwargs) ==
    IF kwargs \subseteq OCRRunAttributes
    THEN {"constructed"}
    ELSE {"TypeError", "constructed"}

OCRRun(engine, original_file_path) ==
    [id |-> None,
     engine |-> engine,
     original_file_path |-> original_file_path,
     converted_file_path |-> None,
     summary_text |-> None,
     best_confidence |-> None]

OCRImage(id, run_id, path, kind, label, sequence) ==
    [id |-> id, run_id |-> run_id, path |-> path, kind |-> kind,
     label |-> label, sequence |-> sequence]

OCRTextResult(run_id, image_id, variant_label, text, confidence) ==
    [run_id |-> run_id, image_id |-> image_id, variant_label |-> variant_label,
     text |-> text, confidence |-> confidence]

(* f"page_{index}" and f"{db_image.label}_{label}", as tuples of strings   *)
SourceLabel(index) == <<"page", "_">> \o Decimal(index)
VariantLabelUnseparated(source_label, label) == source_label \o <<label>>
VariantLabel(source_label, label) == source_label \o <<"_", label>>

(* sequence=order, with order from enumerate(variants): from 0 on, for     *)
(* the variants of one page (the column's default is 0).                   *)
DerivedSequenceDefault(order) == 0
DerivedSequence(order) == order

(* run_dir / "preprocessed" / f"{db_image.label}_{label}.png"              *)
VariantPath(run_dir, source_label, label) ==
    Path(run_dir, "preprocessed", VariantLabel(source_label, label) \o <<".png">>)

-----------------------------------------------------------------------------
(* app/database.py: the store.  The database is the default SQLite file:   *)
(* a session's first INSERT takes the write lock and holds it until its    *)
(* COMMIT or ROLLBACK, other connections read the committed tables only,   *)
(* and an INTEGER PRIMARY KEY gets the largest id of the table plus one.   *)

EmptyTables == [ocr_runs |-> <<>>, ocr_images |-> <<>>, ocr_text_results |-> <<>>]

(* A session: the rows it has INSERTed in its open transaction, and the    *)
(* objects it was given by session.add that the next flush will INSERT.    *)
EmptySession ==
    [ocr_runs |-> <<>>, ocr_images |-> <<>>, ocr_text_results |-> <<>>,
     new |-> <<>>]

(* The tables as the session that has flushed `t` sees them.               *)
Visible(d, t) ==
    [ocr_runs |-> d.ocr_runs \o t.ocr_runs,
     ocr_images |-> d.ocr_images \o t.ocr_images,
     ocr_text_results |-> d.ocr_text_results \o t.ocr_text_results]

RECURSIVE MaxId(_)
MaxId(rows) ==
    IF rows = <<>> THEN 0
    ELSE LET m == MaxId(Tail(rows))
         IN IF Head(rows).id > m THEN Head(rows).id ELSE m

NextId(rows) == MaxId(rows) + 1

(* session.commit(): the flushed rows become the committed ones.           *)
(* session.rollback(): they are dropped.                                   *)
CommittedTables(d, t) ==
    Visible(d, [t EXCEPT !.ocr_text_results = @ \o t.new, !.new = <<>>])
RolledBackTables(d, t) == d

(* session_scope's `except Exception: session.rollback(); raise`           *)
ScopeExitOnErrorCommitting(d, t) == CommittedTables(d, t)
ScopeExitOnError(d, t) == RolledBackTables(d, t)

(* A store is the committed tables and one session.                        *)
(* session.add(obj): the object waits for the next flush.                  *)
SessionAddTwice(store, row) == [store EXCEPT !.tx.new = Append(Append(@, row), row)]
SessionAdd(store, row) == [store EXCEPT !.tx.new = Append(@, row)]

(* session.flush(): INSERTs the waiting objects inside the transaction.    *)
FlushAutocommitting(store) ==
    [store EXCEPT !.db.ocr_text_results = @ \o store.tx.new, !.tx.new = <<>>]
FlushNothing(store) == store
Flush(store) ==
    [store EXCEPT !.tx.ocr_text_results = @ \o store.tx.new, !.tx.new = <<>>]

(* session.add(row); session.flush() for a row of ocr_runs or ocr_images   *)
AddAndFlushAutocommitting(store, table, row) ==
    FlushAutocommitting([store EXCEPT !.db[table] = Append(@, row)])
AddAndFlush(store, table, row) ==
    Flush([store EXCEPT !.tx[table] = Append(@, row)])

(* The UPDATE of the run's row that the flush inside session.commit()      *)
(* issues for the summary set on the run object.                           *)
UpdateRow(rows, row) ==
    [i \in 1..Len(rows) |-> IF rows[i].id = row.id THEN row ELSE rows[i]]
UpdateRun(store, row) ==
    [store EXCEPT !.db.ocr_runs = UpdateRow(@, row),
                  !.tx.ocr_runs = UpdateRow(@, row)]

(* A run with its eagerly loaded collections (selectinload), as the        *)
(* queries of process, _load_runs and _load_run return it.                 *)
RunTree(tables, run) ==
    [run |-> run,
     images |-> SelectSeq(tables.ocr_images, LAMBDA i : i.run_id = run.id),
     text_results |-> SelectSeq(tables.ocr_text_results,
                                LAMBDA r : r.run_id = run.id)]

(* run.text_results, first read in _select_best_result: the rows of the    *)
(* run the session sees, in table order.                                   *)
text_results_of(tables, run_id) ==
    SelectSeq(tables.ocr_text_results, LAMBDA r : r.run_id = run_id)

-----------------------------------------------------------------------------
(* The engines: app/services/ocr_service.py, tesseract_engine.py,          *)
(* paddle_engine.py                                                        *)

(* The keys of OCRService._engine_factories                                *)
EngineNames == {"tesseract", "paddle"}

default_language_for(name) ==
    CASE name = "tesseract" -> Some(tess_lang)
      [] name = "paddle" -> Some(paddle_lang)
      [] OTHER -> None

(* (lang.strip() if lang else None) or self.default_language_for(name)     *)
ResolveLanguage(lang, engine_name) ==
    LET stripped == IF lang = None \/ Val(lang) = ""
                    THEN None
                    ELSE Some(Strip(Val(lang)))
    IN IF stripped # None /\ Val(stripped) # ""
       THEN stripped
       ELSE default_language_for(engine_name)

(* TesseractEngine / PaddleOCREngine: __init__ and set_language both       *)
(* leave lang = (lang or default).strip() or default.                      *)
EngineLanguageDefault(name, lang) == Val(default_language_for(name))
EngineLanguage(name, lang) ==
    LET default == Val(default_language_for(name))
        candidate == Strip(IF lang = None \/ Val(lang) = "" THEN default ELSE Val(lang))
    IN IF candidate = "" THEN default ELSE candidate

get_engine(name, lang) == [name |-> name, lang |-> EngineLanguage(name, lang)]

(* PaddleOCREngine: the instance is its language and the recognizer it has *)
(* loaded, if any: the language the recognizer was constructed with, and   *)
(* which construction it came from.                                        *)
PaddleOCREngine(lang) == [lang |-> EngineLanguage("paddle", lang), ocr |-> None]

(* set_language: nothing when the language is the current one and a        *)
(* recognizer is loaded, else the language is set and the recognizer       *)
(* dropped.                                                                *)
set_language_keeping(engine, lang) ==
    [engine EXCEPT !.lang = EngineLanguage("paddle", lang)]
set_language(engine, lang) ==
    LET new_lang == EngineLanguage("paddle", lang)
    IN IF new_lang = engine.lang /\ engine.ocr # None
       THEN engine
       ELSE [engine EXCEPT !.lang = new_lang, !.ocr = None]

(* _ensure_ocr: PaddleOCR(lang=self.lang) is constructed when none is      *)
(* loaded; `id` tells the constructions apart.                             *)
ensure_ocr(engine, id) ==
    IF engine.ocr = None
    THEN [engine EXCEPT !.ocr = Some([lang |-> engine.lang, id |-> id])]
    ELSE engine

(* engine.run(image): the recognizer is given the image and self.lang      *)
(* (pytesseract's lang=self.lang, PaddleOCR's lang=self.lang).             *)
EngineRun(engine, image) == [image |-> image, lang |-> engine.lang]

(* preferred_variants: PaddleOCREngine declares one, TesseractEngine has   *)
(* no such attribute.                                                      *)
preferred_variants_undeclared(engine) == None
preferred_variants(engine) ==
    IF engine.name = "paddle"
    THEN Some({"original", "grayscale", "contrast"})
    ELSE None

-----------------------------------------------------------------------------
(* OCRService.process, one call per member of Procs                        *)

Procs == {"p1", "p2"}

NoFile == [dir |-> "", stem |-> "", ext |-> ""]
NoCall == [file |-> NoFile, engine_name |-> "", lang |-> None]
NoLocals ==
    [resolved_lang |-> None, engine |-> None, run_dir |-> 0, run |-> None,
     language |-> None, images |-> <<>>, index |-> 0, db_image |-> None,
     variants |-> <<>>, order |-> 0, db_variant_image |-> None,
     refreshed_run |-> None, error |-> "none"]
NothingObserved == [fn |-> "none", value |-> <<>>, writer |-> "none"]

ProcessInit ==
    /\ pc = [p \in Procs |-> "idle"]
    /\ call = [p \in Procs |-> NoCall]
    /\ loc = [p \in Procs |-> NoLocals]
    /\ calls = [p \in Procs |-> <<>>]
    /\ tx = [p \in Procs |-> EmptySession]
    /\ db = EmptyTables
    /\ writer = "none"
    /\ files = {}
    /\ uuid_next = 1
    /\ observed = NothingObserved

(* The row of the run object, once the flush has given it its id.          *)
RunRow(run) == [run EXCEPT !.id = Val(run.id)]

(* An exception leaves process before the session is opened.               *)
Raise(p, error) ==
    /\ pc' = [pc EXCEPT ![p] = "raised"]
    /\ loc' = [loc EXCEPT ![p].error = error]

(* An exception leaves the `with session_scope()` block: the session is    *)
(* rolled back and closed, the exception goes on to the caller.            *)
RaiseInSession(p, error) ==
    /\ pc' = [pc EXCEPT ![p] = "raised"]
    /\ loc' = [loc EXCEPT ![p].error = error]
    /\ db' = ScopeExitOnError(db, tx[p])
    /\ tx' = [tx EXCEPT ![p] = EmptySession]
    /\ writer' = IF writer = p THEN "none" ELSE writer

(* Lines 56-57: the language is resolved, the engine looked up and built.  *)
(* (First a variant that saves the upload before it looks the engine up.)  *)
BeginSavingFirst(p, request) ==
    /\ pc[p] = "idle"
    /\ call' = [call EXCEPT ![p] = request]
    /\ LET resolved_lang == ResolveLanguage(request.lang, request.engine_name)
       IN IF request.engine_name \in EngineNames
          THEN /\ pc' = [pc EXCEPT ![p] = "ingest"]
               /\ loc' = [loc EXCEPT
                            ![p].resolved_lang = resolved_lang,
                            ![p].engine = Some(get_engine(request.engine_name,
                                                          resolved_lang))]
               /\ files' = files
          ELSE /\ pc' = [pc EXCEPT ![p] = "raised"]
               /\ loc' = [loc EXCEPT ![p].resolved_lang = resolved_lang,
                                     ![p].error = "BackendNotFound"]
               /\ files' = files \cup
                     {[path |-> OriginalPath(uuid_next, request.file), by |-> p]}
    /\ UNCHANGED <<calls, tx, db, writer, uuid_next, observed, pureVars>>

Begin(p, request) ==
    /\ pc[p] = "idle"
    /\ call' = [call EXCEPT ![p] = request]
    /\ LET resolved_lang == ResolveLanguage(request.lang, request.engine_name)
       IN IF request.engine_name \in EngineNames
          THEN /\ pc' = [pc EXCEPT ![p] = "ingest"]
               /\ loc' = [loc EXCEPT
                            ![p].resolved_lang = resolved_lang,
                            ![p].engine = Some(get_engine(request.engine_name,
                                                          resolved_lang))]
          ELSE /\ pc' = [pc EXCEPT ![p] = "raised"]
               /\ loc' = [loc EXCEPT ![p].resolved_lang = resolved_lang,
                                     ![p].error = "BackendNotFound"]
    /\ UNCHANGED <<calls, tx, db, writer, files, uuid_next, observed, pureVars>>

(* Lines 58-68: the upload is saved under a fresh run directory and the    *)
(* run object is constructed.                                              *)
Ingest(p) ==
    /\ pc[p] = "ingest"
    /\ LET run_dir == uuid_next
           original_path == OriginalPath(run_dir, call[p].file)
       IN /\ uuid_next' = uuid_next + 1
          /\ files' = files \cup {[path |-> original_path, by |-> p]}
          /\ \E outcome \in ConstructorOutcomes({"engine", "original_file_path",
                                                 "language"}) :
                IF outcome = "constructed"
                THEN /\ pc' = [pc EXCEPT ![p] = "pages"]
                     /\ loc' = [loc EXCEPT
                                  ![p].run_dir = run_dir,
                                  ![p].run = Some(OCRRun(Val(loc[p].engine).name,
                                                         original_path)),
                                  ![p].language = loc[p].resolved_lang]
                ELSE /\ pc' = [pc EXCEPT ![p] = "raised"]
                     /\ loc' = [loc EXCEPT ![p].run_dir = run_dir,
                                           ![p].error = "TypeError"]
    /\ UNCHANGED <<call, calls, tx, db, writer, observed, pureVars>>

(* Lines 70-89: the suffix decides how the pages are obtained; a document  *)
(* has 0..max_pages pages.                                                 *)
ResolvePages(p, max_pages) ==
    /\ pc[p] = "pages"
    /\ LET run_dir == loc[p].run_dir
           file == call[p].file
           original_path == OriginalPath(run_dir, file)
           suffix == Lower(file.ext)
       IN IF suffix \in SUPPORTED_IMAGE_EXTENSIONS
          THEN /\ \E outcome \in {"ok", "LoadFailed"} :
                     IF outcome = "ok"
                     THEN /\ pc' = [pc EXCEPT ![p] = "session"]
                          /\ loc' = [loc EXCEPT ![p].images =
                                       <<[path |-> original_path,
                                          image |-> load_image(original_path)]>>]
                     ELSE Raise(p, outcome)
               /\ files' = files
          ELSE IF suffix \in SUPPORTED_DOCUMENT_EXTENSIONS
          THEN \E outcome \in {"ok", "RasterizeFailed"}
                                \cup (IF suffix = ".pdf" THEN {}
                                      ELSE {"ConversionFailed"}),
                  n \in 0..max_pages :
                LET converted_pdf_path ==
                        IF suffix = ".pdf" THEN original_path
                        ELSE ConvertedPath(run_dir, file)
                    converted == IF suffix = ".pdf" \/ outcome = "ConversionFailed"
                                 THEN {}
                                 ELSE {[path |-> converted_pdf_path, by |-> p]}
                    images_paths == pdf_to_images(run_dir, n)
                IN IF outcome = "ok"
                   THEN /\ pc' = [pc EXCEPT ![p] = "session"]
                        /\ loc' = [loc EXCEPT
                                     ![p].run = Some([Val(@) EXCEPT
                                         !.converted_file_path =
                                             Some(converted_pdf_path)]),
                                     ![p].images =
                                         [i \in 1..n |->
                                            [path |-> images_paths[i],
                                             image |-> load_image(images_paths[i])]]]
                        /\ files' = files \cup converted \cup
                                      {[path |-> images_paths[i], by |-> p] :
                                           i \in 1..n}
                   ELSE /\ Raise(p, outcome)
                        /\ files' = files \cup converted
          ELSE /\ Raise(p, "UnsupportedFormat")
               /\ files' = files
    /\ UNCHANGED <<call, calls, tx, db, writer, uuid_next, observed, pureVars>>

(* Where the loops of lines 95 and 117 go next.                            *)
AfterVariantOfOnePage(l, order) ==
    IF order < Len(l.variants) THEN "variant" ELSE "summarize"
AfterVariant(l, order) ==
    IF order < Len(l.variants) THEN "variant"
    ELSE IF l.index < Len(l.images) THEN "page"
    ELSE "summarize"

(* Lines 91-93: the session is opened, the run added and flushed; the      *)
(* INSERT takes the write lock or fails on a locked database.              *)
OpenSession(p) ==
    /\ pc[p] = "session"
    /\ IF writer = "none"
       THEN LET run == [Val(loc[p].run) EXCEPT
                           !.id = Some(NextId(Visible(db, tx[p]).ocr_runs))]
                store == AddAndFlush([db |-> db, tx |-> tx[p]], "ocr_runs",
                                     RunRow(run))
            IN /\ db' = store.db
               /\ tx' = [tx EXCEPT ![p] = store.tx]
               /\ writer' = p
               /\ loc' = [loc EXCEPT ![p].run = Some(run)]
               /\ pc' = [pc EXCEPT ![p] =
                           IF loc[p].images = <<>> THEN "summarize" ELSE "page"]
       ELSE RaiseInSession(p, "StorageFailed")
    /\ UNCHANGED <<call, calls, files, uuid_next, observed, pureVars>>

(* Lines 95-116: the next page's source image is added and flushed, and    *)
(* its variants are generated, unless a transform raises.                  *)
Page(p) ==
    /\ pc[p] = "page"
    /\ LET index == loc[p].index + 1
           entry == loc[p].images[index]
           run == Val(loc[p].run)
           db_image == OCRImage(NextId(Visible(db, tx[p]).ocr_images),
                                Val(run.id), entry.path, "source",
                                SourceLabel(index), index)
           store == AddAndFlush([db |-> db, tx |-> tx[p]], "ocr_images", db_image)
           variants == generate(entry.image,
                                preferred_variants(Val(loc[p].engine)))
           l == [loc[p] EXCEPT !.index = index, !.db_image = Some(db_image),
                               !.variants = variants, !.order = 0]
       IN \E outcome \in {"ok", "TransformFailed"} :
             IF outcome = "ok"
             THEN /\ db' = store.db
                  /\ tx' = [tx EXCEPT ![p] = store.tx]
                  /\ writer' = writer
                  /\ loc' = [loc EXCEPT ![p] = l]
                  /\ pc' = [pc EXCEPT ![p] = AfterVariant(l, 0)]
             ELSE RaiseInSession(p, outcome)
    /\ UNCHANGED <<call, calls, files, uuid_next, observed, pureVars>>

(* Lines 117-129: the next variant is saved, its image added and flushed.  *)
Variant(p) ==
    /\ pc[p] = "variant"
    /\ LET order == loc[p].order
           variant == loc[p].variants[order + 1]
           run == Val(loc[p].run)
           db_image == Val(loc[p].db_image)
           variant_path == VariantPath(loc[p].run_dir, db_image.label,
                                       variant.label)
           db_variant_image ==
               OCRImage(NextId(Visible(db, tx[p]).ocr_images), Val(run.id),
                        variant_path, "preprocessed",
                        VariantLabel(db_image.label, variant.label),
                        DerivedSequence(order))
           store == AddAndFlush([db |-> db, tx |-> tx[p]], "ocr_images",
                                db_variant_image)
       IN /\ files' = files \cup {[path |-> variant_path, by |-> p]}
          /\ db' = store.db
          /\ tx' = [tx EXCEPT ![p] = store.tx]
          /\ loc' = [loc EXCEPT ![p].db_variant_image = Some(db_variant_image)]
          /\ pc' = [pc EXCEPT ![p] = "recognize"]
    /\ UNCHANGED <<call, calls, writer, uuid_next, observed, pureVars>>

(* Lines 131-139: engine.run on the variant raises or returns one of the   *)
(* engine's `outputs`; its text result is added to the session.            *)
Recognize(p, outputs) ==
    /\ pc[p] = "recognize"
    /\ LET order == loc[p].order
           variant == loc[p].variants[order + 1]
           run == Val(loc[p].run)
           db_variant_image == Val(loc[p].db_variant_image)
       IN /\ calls' = [calls EXCEPT ![p] =
                         Append(@, EngineRun(Val(loc[p].engine), variant.image))]
          /\ \E raises \in BOOLEAN, result \in outputs[Val(loc[p].engine).name] :
                IF raises
                THEN RaiseInSession(p, "RecognitionFailed")
                ELSE LET text_result ==
                             OCRTextResult(Val(run.id), db_variant_image.id,
                                           db_variant_image.label, result.text,
                                           result.confidence)
                         store == SessionAdd([db |-> db, tx |-> tx[p]],
                                             text_result)
                     IN /\ db' = store.db
                        /\ tx' = [tx EXCEPT ![p] = store.tx]
                        /\ writer' = writer
                        /\ loc' = [loc EXCEPT ![p].order = order + 1]
                        /\ pc' = [pc EXCEPT ![p] =
                                    AfterVariant(loc[p], order + 1)]
    /\ UNCHANGED <<call, files, uuid_next, observed, pureVars>>

(* Lines 143-145: `if best:` sets the run's summary from the best result.  *)
AttachSummaryIfText(run, best) ==
    IF best # None /\ Val(best).text # <<>>
    THEN [run EXCEPT !.summary_text = Some(Val(best).text),
                     !.best_confidence = Val(best).confidence]
    ELSE run
AttachSummary(run, best) ==
    IF best # None
    THEN [run EXCEPT !.summary_text = Some(Val(best).text),
                     !.best_confidence = Val(best).confidence]
    ELSE run

(* Lines 141-146: flush, select the best result, set the summary.          *)
Summarize(p) ==
    /\ pc[p] = "summarize"
    /\ LET run == Val(loc[p].run)
           store == Flush([db |-> db, tx |-> tx[p]])
           best == select_best_result(
                       text_results_of(Visible(store.db, store.tx), Val(run.id)))
       IN /\ db' = store.db
          /\ tx' = [tx EXCEPT ![p] = store.tx]
          /\ loc' = [loc EXCEPT ![p].run = Some(AttachSummary(run, best))]
          /\ pc' = [pc EXCEPT ![p] = "commit"]
    /\ UNCHANGED <<call, calls, writer, files, uuid_next, observed, pureVars>>

(* Line 147: session.commit() flushes the run's summary and commits, or    *)
(* raises.                                                                 *)
Commit(p) ==
    /\ pc[p] = "commit"
    /\ \E raises \in BOOLEAN :
          IF raises
          THEN RaiseInSession(p, "StorageFailed")
          ELSE LET store == UpdateRun(Flush([db |-> db, tx |-> tx[p]]),
                                      RunRow(Val(loc[p].run)))
               IN /\ db' = CommittedTables(store.db, store.tx)
                  /\ tx' = [tx EXCEPT ![p] = EmptySession]
                  /\ writer' = IF writer = p THEN "none" ELSE writer
                  /\ pc' = [pc EXCEPT ![p] = "reload"]
                  /\ loc' = loc
    /\ UNCHANGED <<call, calls, files, uuid_next, observed, pureVars>>

(* session.get(OCRRun, id) with both collections loaded eagerly            *)
GetRun(tables, id) ==
    LET found == SelectSeq(tables.ocr_runs, LAMBDA r : r.id = id)
    IN IF found = <<>> THEN None ELSE Some(RunTree(tables, found[1]))

(* Lines 148-159: the run is queried again with its collections and        *)
(* returned (the scope's own commit has nothing left to write); or the     *)
(* query raises.                                                           *)
Reload(p) ==
    /\ pc[p] = "reload"
    /\ \E raises \in BOOLEAN :
          IF raises
          THEN RaiseInSession(p, "StorageFailed")
          ELSE /\ loc' = [loc EXCEPT ![p].refreshed_run =
                            GetRun(Visible(db, tx[p]), Val(Val(loc[p].run).id))]
               /\ pc' = [pc EXCEPT ![p] = "returned"]
               /\ UNCHANGED <<db, tx, writer>>
    /\ UNCHANGED <<call, calls, files, uuid_next, observed, pureVars>>

-----------------------------------------------------------------------------
(* The readers: app/main.py                                                *)

(* What a reader's session sees: the committed tables.                     *)
ReaderView == db

(* _load_runs: every committed run with its collections, newest first.     *)
(* `writer` notes whose session held the write lock during the read.       *)
LoadRuns ==
    /\ observed' = [fn |-> "_load_runs",
                    value |-> Reverse([i \in 1..Len(ReaderView.ocr_runs) |->
                                          RunTree(ReaderView,
                                                  ReaderView.ocr_runs[i])]),
                    writer |-> writer]
    /\ UNCHANGED <<pc, call, loc, calls, tx, db, writer, files, uuid_next, pureVars>>

(* _load_run(run_id): that run with its collections, or None.              *)
LoadRun(run_id) ==
    /\ observed' = [fn |-> "_load_run", value |-> GetRun(ReaderView, run_id),
                    writer |-> writer]
    /\ UNCHANGED <<pc, call, loc, calls, tx, db, writer, files, uuid_next, pureVars>>

-----------------------------------------------------------------------------
(* The inputs the specifications draw from                                 *)

MaxPages == 2        \* pages of a document, one call at a time
MaxConcPages == 1    \* pages of a document, concurrent calls
MaxResults == 3      \* length of the list given to _select_best_result
MaxLongPages == 10   \* pages of a long document

Upload(ext) == [dir |-> "", stem |-> "scan", ext |-> ext]
UploadIn(dir, ext) == [dir |-> dir, stem |-> "scan", ext |-> ext]
Request(ext, engine_name, lang) ==
    [file |-> Upload(ext), engine_name |-> engine_name, lang |-> lang]

(* What engine.run returns: a text (a tuple of characters) and a           *)
(* confidence in hundredths, absent when nothing was recognised.           *)
Output(text, confidence) == [text |-> text, confidence |-> confidence]
Blank == Output(<<>>, None)

Requests ==
    {Request(ext, name, None) :
        ext \in {".png", ".PNG", ".pdf", ".docx", ".txt", ""},
        name \in {"tesseract", "paddle", "trocr"}}
    \cup {Request(".png", name, lang) :
            name \in {"tesseract", "paddle", "trocr"},
            lang \in {Some(""), Some(" "), Some(" eng ")}}

Outputs ==
    [tesseract |-> {Blank, Output(<<"a">>, Some(9000))},
     paddle |-> {Blank, Output(<<"a">>, Some(0)), Output(<<>>, Some(87))}]

ConcRequests ==
    {Request(ext, name, None) :
        ext \in {".png", ".pdf", ".txt"},
        name \in {"tesseract", "paddle", "trocr"}}

ConcOutputs ==
    [tesseract |-> {Blank}, paddle |-> {Output(<<"a">>, Some(87))}]

StorageRequests ==
    {[file |-> UploadIn(dir, ext), engine_name |-> "paddle", lang |-> None] :
        dir \in {"", "/srv", "../.."}, ext \in {".png", ".docx"}}

LongRequests == {Request(".pdf", name, None) : name \in EngineNames}
LongOutputs == [tesseract |-> {Blank}, paddle |-> {Blank}]

MaxPaddleCalls == 4  \* calls made on one PaddleOCREngine instance
PaddleHints ==
    {None, Some(""), Some(" "), Some(" eng "), Some("eng"), Some("vi"), Some("en")}

MaxFmtEighths == 96  \* the confidences 0, 1/8, 2/8, ... given to format_confidence
FmtConfidences ==
    {None}
    \cup {Some(k * (One \div 8)) : k \in 0..MaxFmtEighths}
    \cup {Some(c) : c \in {8700, 9999, 10001, 952000, 951250, 1000000,
                           1000625, 1500000}}
FmtRows == {Output(<<"a">>, c) : c \in FmtConfidences}

SelConfidences == {None, Some(0), Some(87)}
SelTexts == {<<>>, <<"a">>, <<"b">>}
SelResults == {Output(t, c) : t \in SelTexts, c \in SelConfidences}

PermutationsOf(n) ==
    {f \in [1..n -> 1..n] : \A i, j \in 1..n : f[i] = f[j] => i = j}
Permuted(rs, pi) == [i \in 1..Len(rs) |-> rs[pi[i]]]

GenSources == {Upload(".png"), Upload(".jpg")}
GenAllowed ==
    {None} \cup {Some(A) : A \in SUBSET (StepLabels \cup {"sharpen"})}

-----------------------------------------------------------------------------
(* Specifications                                                          *)

vars == <<sel_in, sel_pi, sel_out, sel_perm_out,
          gen_image, gen_a, gen_b, gen_out_a, gen_out_b, fmt_row, fmt_out,
          pd_engine, pd_builds, pd_last, pd_calls,
          pc, call, loc, calls, tx, db, writer, files, uuid_next, observed>>

SelectIdle ==
    /\ sel_in = <<>>
    /\ sel_pi = <<>>
    /\ sel_out = NotCalled
    /\ sel_perm_out = NotCalled

GenerateIdle ==
    /\ gen_image = Image(OriginalPath(0, NoFile))
    /\ gen_a = None
    /\ gen_b = None
    /\ gen_out_a = NotCalled
    /\ gen_out_b = NotCalled

FormatIdle ==
    /\ fmt_row = Blank
    /\ fmt_out = NotCalled

PaddleCall(op, arg, outcome) == [op |-> op, arg |-> arg, outcome |-> outcome]
PaddleIdle ==
    /\ pd_engine = PaddleOCREngine(None)
    /\ pd_builds = 0
    /\ pd_last = PaddleCall("__init__", None, "ok")
    /\ pd_calls = 0

(* One call of process.                                                    *)
Init == ProcessInit /\ SelectIdle /\ GenerateIdle /\ FormatIdle /\ PaddleIdle

Next ==
    \/ \E request \in Requests : Begin("p1", request)
    \/ Ingest("p1")
    \/ ResolvePages("p1", MaxPages)
    \/ OpenSession("p1")
    \/ Page("p1")
    \/ Variant("p1")
    \/ Recognize("p1", Outputs)
    \/ Summarize("p1")
    \/ Commit("p1")
    \/ Reload("p1")

Spec == Init /\ [][Next]_vars

(* One call of process on a document of many pages.                        *)
LongNext ==
    \/ \E request \in LongRequests : Begin("p1", request)
    \/ Ingest("p1")
    \/ ResolvePages("p1", MaxLongPages)
    \/ OpenSession("p1")
    \/ Page("p1")
    \/ Variant("p1")
    \/ Recognize("p1", LongOutputs)
    \/ Summarize("p1")
    \/ Commit("p1")
    \/ Reload("p1")

LongSpec == Init /\ [][LongNext]_vars

(* Concurrent calls of process, with the readers.                          *)
ConcNext ==
    \/ \E p \in Procs, request \in ConcRequests : Begin(p, request)
    \/ \E p \in Procs : Ingest(p)
    \/ \E p \in Procs : ResolvePages(p, MaxConcPages)
    \/ \E p \in Procs : OpenSession(p)
    \/ \E p \in Procs : Page(p)
    \/ \E p \in Procs : Variant(p)
    \/ \E p \in Procs : Recognize(p, ConcOutputs)
    \/ \E p \in Procs : Summarize(p)
    \/ \E p \in Procs : Commit(p)
    \/ \E p \in Procs : Reload(p)
    \/ LoadRuns
    \/ \E run_id \in 1..Cardinality(Procs) : LoadRun(run_id)

ConcSpec == Init /\ [][ConcNext]_vars

(* Concurrent calls of process on uploads whose file names the clients     *)
(* chose.                                                                  *)
StorageNext ==
    \/ \E p \in Procs, request \in StorageRequests : Begin(p, request)
    \/ \E p \in Procs : Ingest(p)
    \/ \E p \in Procs : ResolvePages(p, MaxConcPages)
    \/ \E p \in Procs : OpenSession(p)
    \/ \E p \in Procs : Page(p)
    \/ \E p \in Procs : Variant(p)
    \/ \E p \in Procs : Recognize(p, ConcOutputs)
    \/ \E p \in Procs : Summarize(p)
    \/ \E p \in Procs : Commit(p)
    \/ \E p \in Procs : Reload(p)

StorageSpec == Init /\ [][StorageNext]_vars

(* _select_best_result on a list and on a permutation of it.               *)
SelectInit ==
    /\ \E n \in 0..MaxResults :
          /\ sel_in \in [1..n -> SelResults]
          /\ sel_pi \in PermutationsOf(n)
    /\ sel_out = NotCalled
    /\ sel_perm_out = NotCalled
    /\ ProcessInit /\ GenerateIdle /\ FormatIdle /\ PaddleIdle

Select ==
    /\ sel_out = NotCalled
    /\ sel_out' = Returned([pos |-> SelectPos(sel_in),
                            best |-> select_best_result(sel_in)])
    /\ sel_perm_out' = Returned([pos |-> SelectPos(Permuted(sel_in, sel_pi)),
                                 best |-> select_best_result(
                                              Permuted(sel_in, sel_pi))])
    /\ UNCHANGED <<sel_in, sel_pi, genVars, fmtVars, paddleVars, procVars>>

SelectSpec == SelectInit /\ [][Select]_vars

(* generate on one image with two sets of allowed labels.                  *)
GenerateInit ==
    /\ gen_image \in {load_image(OriginalPath(1, f)) : f \in GenSources}
    /\ gen_a \in GenAllowed
    /\ gen_b \in GenAllowed
    /\ gen_out_a = NotCalled
    /\ gen_out_b = NotCalled
    /\ ProcessInit /\ SelectIdle /\ FormatIdle /\ PaddleIdle

Generate ==
    /\ gen_out_a = NotCalled
    /\ gen_out_a' = Returned(generate(gen_image, gen_a))
    /\ gen_out_b' = Returned(generate(gen_image, gen_b))
    /\ UNCHANGED <<gen_image, gen_a, gen_b, selVars, fmtVars, paddleVars, procVars>>

GenerateSpec == GenerateInit /\ [][Generate]_vars

(* format_confidence on the confidence of a stored text result.            *)
FormatInit ==
    /\ fmt_row \in FmtRows
    /\ fmt_out = NotCalled
    /\ ProcessInit /\ SelectIdle /\ GenerateIdle /\ PaddleIdle

Format ==
    /\ fmt_out = NotCalled
    /\ fmt_out' = Returned(format_confidence(fmt_row.confidence))
    /\ UNCHANGED <<fmt_row, selVars, genVars, paddleVars, procVars>>

FormatSpec == FormatInit /\ [][Format]_vars

(* set_language and run called on one PaddleOCREngine instance.            *)
PaddleInit ==
    /\ pd_engine \in {PaddleOCREngine(lang) : lang \in PaddleHints}
    /\ pd_builds = 0
    /\ pd_last = PaddleCall("__init__", None, "ok")
    /\ pd_calls = 0
    /\ ProcessInit /\ SelectIdle /\ GenerateIdle /\ FormatIdle

PaddleSetLanguage(lang) ==
    /\ pd_calls < MaxPaddleCalls
    /\ pd_engine' = set_language(pd_engine, lang)
    /\ pd_last' = PaddleCall("set_language", lang, "ok")
    /\ pd_calls' = pd_calls + 1
    /\ UNCHANGED <<pd_builds, selVars, genVars, fmtVars, procVars>>

(* run: _ensure_ocr, then the recognizer is applied; the construction of   *)
(* a recognizer or its application may raise.                              *)
PaddleRun(outcome) ==
    /\ pd_calls < MaxPaddleCalls
    /\ outcome = "BuildFailed" => pd_engine.ocr = None
    /\ pd_engine' = IF outcome = "BuildFailed" THEN pd_engine
                    ELSE ensure_ocr(pd_engine, pd_builds + 1)
    /\ pd_builds' = IF outcome # "BuildFailed" /\ pd_engine.ocr = None
                    THEN pd_builds + 1 ELSE pd_builds
    /\ pd_last' = PaddleCall("run", None, outcome)
    /\ pd_calls' = pd_calls + 1
    /\ UNCHANGED <<selVars, genVars, fmtVars, procVars>>

PaddleNext ==
    \/ \E lang \in PaddleHints : PaddleSetLanguage(lang)
    \/ \E outcome \in {"ok", "BuildFailed", "OcrFailed"} : PaddleRun(outcome)

PaddleSpec == PaddleInit /\ [][PaddleNext]_vars

-----------------------------------------------------------------------------
(* Properties of _select_best_result (SelectSpec)                          *)

(* The key the selection is specified by, on the results themselves:       *)
(* (confidence, 0 when absent; length of the text), compared as a pair.    *)
ResultKey(r) ==
    <<IF r.confidence = None THEN 0 ELSE r.confidence[1], Len(r.text)>>
PairLess(k, l) == k[1] < l[1] \/ (k[1] = l[1] /\ k[2] < l[2])
HasMaximalKey(rs, i) ==
    \A j \in 1..Len(rs) : ~PairLess(ResultKey(rs[i]), ResultKey(rs[j]))
DistinctKeys(rs) ==
    \A i, j \in 1..Len(rs) : i # j => ResultKey(rs[i]) # ResultKey(rs[j])

(* C6: select returns none exactly when the list is empty (and does not    *)
(* fail on it); otherwise it returns a member of the list; on a list of    *)
(* one element it returns that element, with or without a confidence.      *)
C6_SelectNoneIffEmpty ==
    sel_out.called =>
        /\ (sel_out.value.best = None) <=> (sel_in = <<>>)
        /\ sel_in # <<>> =>
              \E i \in 1..Len(sel_in) : sel_out.value.best = Some(sel_in[i])
        /\ Len(sel_in) = 1 => sel_out.value.best = Some(sel_in[1])

C6_Witness ==
    /\ sel_out.called
    /\ Len(sel_in) = 1
    /\ sel_in[1].confidence = None
    /\ sel_out.value.best = Some(sel_in[1])

(* C7: among the results that share the greatest key, an absent confidence *)
(* counting as 0, select returns the one enumerated first.                 *)
C7_TieBreakEarliest ==
    (sel_out.called /\ sel_in # <<>>) =>
        LET pos == sel_out.value.pos
        IN /\ pos \in 1..Len(sel_in)
           /\ HasMaximalKey(sel_in, pos)
           /\ \A j \in 1..Len(sel_in) : HasMaximalKey(sel_in, j) => pos <= j
           /\ sel_out.value.best = Some(sel_in[pos])

C7_Witness ==
    /\ sel_out.called
    /\ Len(sel_in) = 3
    /\ sel_out.value.pos = 2
    /\ HasMaximalKey(sel_in, 3)
    /\ sel_in[2].confidence = None
    /\ sel_in[3].confidence = Some(0)
    /\ sel_in[2].text # sel_in[3].text

(* C8: when the keys of a list are pairwise distinct, select returns the   *)
(* same result, the same object of the list, for every permutation of it.  *)
C8_PermutationInvariant ==
    (sel_out.called /\ DistinctKeys(sel_in)) =>
        /\ sel_perm_out.value.best = sel_out.value.best
        /\ sel_in # <<>> => sel_pi[sel_perm_out.value.pos] = sel_out.value.pos

C8_Witness ==
    /\ sel_out.called
    /\ Len(sel_in) = 3
    /\ DistinctKeys(sel_in)
    /\ sel_pi = <<3, 1, 2>>
    /\ sel_out.value.pos = 3
    /\ sel_perm_out.value.pos = 1
    /\ ResultKey(sel_in[1])[1] = ResultKey(sel_in[3])[1]

-----------------------------------------------------------------------------
(* Properties of generate (GenerateSpec)                                   *)

(* The labels a set of allowed labels lets through: every label when none  *)
(* is given.                                                               *)
LetThrough(allowed) ==
    IF allowed = None THEN StepLabels ELSE allowed[1] \cap StepLabels
StepIndex(label) == CHOOSE k \in 1..Len(steps) : steps[k] = label
InPipelineOrder(out) ==
    \A i, j \in 1..Len(out) :
        i < j => StepIndex(out[i].label) < StepIndex(out[j].label)

(* C9: for allowed sets A and A' with A within A', the two outputs of      *)
(* generate on one image hold the same image under every label they share, *)
(* and each lists its labels in the order of the pipeline.                 *)
C9_FilteringKeepsChain ==
    (gen_out_a.called /\ LetThrough(gen_a) \subseteq LetThrough(gen_b)) =>
        /\ \A i \in 1..Len(gen_out_a.value), j \in 1..Len(gen_out_b.value) :
              gen_out_a.value[i].label = gen_out_b.value[j].label
                  => gen_out_a.value[i].image = gen_out_b.value[j].image
        /\ InPipelineOrder(gen_out_a.value)
        /\ InPipelineOrder(gen_out_b.value)

C9_Witness ==
    /\ gen_out_a.called
    /\ gen_a = Some({"original", "threshold"})
    /\ gen_b = None
    /\ Len(gen_out_a.value) = 2
    /\ Len(gen_out_b.value) = 5
    /\ gen_out_a.value[2].label = "threshold"
    /\ gen_out_a.value[2].image = gen_out_b.value[5].image
    /\ Len(gen_out_a.value[2].image.ops) = 5

(* C19: when generate returns for a set of allowed labels, the list it     *)
(* returns has one variant for every label of the set.                     *)
C19_EveryAllowedLabelEmitted ==
    (gen_out_a.called /\ gen_a # None) =>
        \A label \in gen_a[1] :
            Cardinality({i \in 1..Len(gen_out_a.value) :
                            gen_out_a.value[i].label = label}) = 1

-----------------------------------------------------------------------------
(* Properties of process (Spec, ConcSpec)                                  *)

(* The call a row belongs to: the one whose run directory its path is in.  *)
OwnerOf(path) == CHOOSE p \in Procs : loc[p].run_dir = path.run
Started(p) == loc[p].run_dir # 0

CommittedRuns == {db.ocr_runs[i] : i \in 1..Len(db.ocr_runs)}
CommittedImages == {db.ocr_images[i] : i \in 1..Len(db.ocr_images)}
CommittedResults == {db.ocr_text_results[i] : i \in 1..Len(db.ocr_text_results)}

OfKind(images, kind) == SelectSeq(images, LAMBDA i : i.kind = kind)

(* The stages the backend of a call takes: 3 for paddle's preferred        *)
(* variants, all 5 for a backend that declares none.                       *)
StagesTaken(p) == IF call[p].engine_name = "paddle" THEN 3 ELSE 5

(* The result the summary is specified to be taken from: the one with the  *)
(* greatest key that is enumerated first (C7).                             *)
EarliestMaximal(rs) ==
    rs[CHOOSE j \in 1..Len(rs) :
          /\ HasMaximalKey(rs, j)
          /\ \A i \in 1..Len(rs) : HasMaximalKey(rs, i) => j <= i]

Whole(tree) ==
    LET p == OwnerOf(tree.run.original_file_path)
        derived == OfKind(tree.images, "preprocessed")
    IN /\ Len(OfKind(tree.images, "source")) = Len(loc[p].images)
       /\ Len(derived) = Len(loc[p].images) * StagesTaken(p)
       /\ Len(tree.text_results) = Len(derived)
       /\ \A d \in 1..Len(derived) :
             Cardinality({r \in 1..Len(tree.text_results) :
                             tree.text_results[r].image_id = derived[d].id}) = 1
       /\ tree.text_results # <<>> =>
             /\ tree.run.summary_text =
                    Some(EarliestMaximal(tree.text_results).text)
             /\ tree.run.best_confidence =
                    EarliestMaximal(tree.text_results).confidence

C3_UnsupportedFormat ==
    \A p \in Procs :
        (/\ pc[p] # "idle"
         /\ call[p].engine_name \in EngineNames
         /\ Lower(call[p].file.ext) \notin
                SUPPORTED_IMAGE_EXTENSIONS \cup SUPPORTED_DOCUMENT_EXTENSIONS) =>
            /\ pc[p] \in {"ingest", "pages", "raised"}
            /\ pc[p] = "raised" => loc[p].error = "UnsupportedFormat"
            /\ calls[p] = <<>>
            /\ db = EmptyTables
            /\ \A f \in files :
                  f.by = p => f.path = OriginalPath(loc[p].run_dir, call[p].file)

-----------------------------------------------------------------------------
(* Properties of the images and the calls of a run (Spec, LongSpec)        *)

(* The images of a committed run in the order they were generated (the     *)
(* order of their INSERTs), and for a derived image at position i the      *)
(* source image it was generated from: the last source image before it.    *)
ImagesOf(run) == RunTree(db, run).images
IsDerived(image) == image.kind = "preprocessed"
SourceOf(images, i) ==
    images[CHOOSE k \in 1..i :
              /\ images[k].kind = "source"
              /\ \A m \in (k + 1)..i : images[m].kind # "source"]

IsPrefix(a, b) == Len(a) <= Len(b) /\ SubSeq(b, 1, Len(a)) = a
SourcesOf(images) ==
    {images[k] : k \in {m \in 1..Len(images) : images[m].kind = "source"}}

LanguageToUse(request) ==
    IF request.lang # None /\ Strip(request.lang[1]) # ""
    THEN Strip(request.lang[1])
    ELSE IF request.engine_name = "tesseract" THEN tess_lang ELSE paddle_lang

C14_UnknownBackend ==
    \A p \in Procs :
        (pc[p] # "idle" /\ call[p].engine_name \notin EngineNames) =>
            /\ pc[p] = "raised"
            /\ loc[p].error = "BackendNotFound"
            /\ ~Started(p)
            /\ \A f \in files : f.by # p
            /\ calls[p] = <<>>
            /\ tx[p] = EmptySession
            /\ loc[p].run = None
            /\ \A run \in CommittedRuns :
                  run.original_file_path # OriginalPath(loc[p].run_dir,
                                                        call[p].file)

C14_Witness ==
    /\ pc["p1"] = "raised"
    /\ loc["p1"].error = "BackendNotFound"
    /\ call["p1"].engine_name = "trocr"
    /\ call["p1"].lang = Some(" eng ")
    /\ files = {}
    /\ db = EmptyTables

(* How far a call of process has come: the stage, and inside the loops the *)
(* page, the variant and the step (generate, save, recognise).             *)
ProgressOf(at, l) ==
    CASE at = "idle" -> <<0, 0, 0, 0>>
      [] at = "ingest" -> <<1, 0, 0, 0>>
      [] at = "pages" -> <<2, 0, 0, 0>>
      [] at = "session" -> <<3, 0, 0, 0>>
      [] at = "page" -> <<4, l.index + 1, 0, 0>>
      [] at = "variant" -> <<4, l.index, l.order, 1>>
      [] at = "recognize" -> <<4, l.index, l.order, 2>>
      [] at = "summarize" -> <<5, 0, 0, 0>>
      [] at = "commit" -> <<6, 0, 0, 0>>
      [] at = "reload" -> <<7, 0, 0, 0>>
      [] at = "returned" -> <<8, 0, 0, 0>>
      [] at = "raised" -> <<9, 0, 0, 0>>
RECURSIVE LexLess(_, _)
LexLess(a, b) ==
    /\ a # <<>>
    /\ \/ Head(a) < Head(b)
       \/ Head(a) = Head(b) /\ LexLess(Tail(a), Tail(b))

Ended(p) == pc[p] \in {"returned", "raised"}
Persisted(p) ==
    Started(p) /\ \E run \in CommittedRuns :
                     run.original_file_path.run = loc[p].run_dir
FilesBy(p) == {f \in files : f.by = p}
RowsBy(p) ==
    [ocr_runs |-> SelectSeq(db.ocr_runs,
                            LAMBDA r : r.original_file_path.run = loc[p].run_dir),
     ocr_images |-> SelectSeq(db.ocr_images,
                              LAMBDA i : i.path.run = loc[p].run_dir)]

C17_StateOfPhases ==
    \A p \in Procs :
        /\ pc[p] = "page" => Len(calls[p]) = loc[p].index * StagesTaken(p)
        /\ pc[p] \in {"variant", "recognize"} =>
              Len(calls[p]) = (loc[p].index - 1) * StagesTaken(p) + loc[p].order
        /\ pc[p] \in {"summarize", "commit", "reload", "returned"} =>
              /\ loc[p].index = Len(loc[p].images)
              /\ Len(calls[p]) = Len(loc[p].images) * StagesTaken(p)
        /\ pc[p] = "returned" => Persisted(p)
        /\ (pc[p] = "raised" /\ loc[p].error # "StorageFailed") => ~Persisted(p)

(* In the steps of a call: it only moves forward, page by page and variant *)
(* by variant, or raises; once it has returned or raised nothing of it     *)
(* changes: no file, no row, no call of engine.run.                        *)
C17_StepOfPhases ==
    \A p \in Procs :
        /\ \/ pc'[p] = pc[p] /\ loc'[p] = loc[p]
           \/ LexLess(ProgressOf(pc[p], loc[p]), ProgressOf(pc'[p], loc'[p]))
        /\ Ended(p) =>
              /\ pc'[p] = pc[p] /\ loc'[p] = loc[p]
              /\ calls'[p] = calls[p] /\ tx'[p] = tx[p]
              /\ FilesBy(p)' = FilesBy(p)
              /\ RowsBy(p)' = RowsBy(p)

DerivedOf(p) ==
    SelectSeq(Visible(db, tx[p]).ocr_images,
              LAMBDA i : i.kind = "preprocessed" /\ i.path.run = loc[p].run_dir)
ResultsOf(p) ==
    SelectSeq(Visible(db, tx[p]).ocr_text_results \o tx[p].new,
              LAMBDA r : Some(r.run_id) = loc[p].run[1].id)

(* The i-th variant a call generates: variant ((i-1) mod k)+1 of page      *)
(* ((i-1) div k)+1, k being the stages its backend takes.                  *)
PageOfVariant(p, i) == ((i - 1) \div StagesTaken(p)) + 1
GeneratedVariant(p, i) ==
    generate(loc[p].images[PageOfVariant(p, i)].image,
             IF call[p].engine_name = "paddle"
             THEN Some({"original", "grayscale", "contrast"})
             ELSE None)[((i - 1) % StagesTaken(p)) + 1]

C20_RunScopedStorage ==
    /\ \A f \in files : f.path.run = loc[f.by].run_dir
    /\ \A p, q \in Procs :
          (p # q /\ Started(p) /\ Started(q)) => loc[p].run_dir # loc[q].run_dir
    /\ \A f, g \in files : f.by # g.by => f.path # g.path

-----------------------------------------------------------------------------
(* Properties of format_confidence (FormatSpec)                            *)

DigitValue(c) == CHOOSE d \in 0..9 : DigitChars[d + 1] = c
IsDigit(c) == \E d \in 0..9 : DigitChars[d + 1] = c
RECURSIVE DigitsValue(_)
DigitsValue(cs) ==
    IF cs = <<>> THEN 0
    ELSE 10 * DigitsValue(SubSeq(cs, 1, Len(cs) - 1)) + DigitValue(cs[Len(cs)])

(* A text "ddd.dd%" and the hundredths of a percent it reads as.           *)
IsPercentText(t) ==
    /\ Len(t) >= 5
    /\ t[Len(t)] = "%"
    /\ t[Len(t) - 3] = "."
    /\ \A i \in (1..(Len(t) - 4)) \cup {Len(t) - 2, Len(t) - 1} : IsDigit(t[i])
    /\ Len(t) > 5 => t[1] # "0"
PercentHundredths(t) ==
    100 * DigitsValue(SubSeq(t, 1, Len(t) - 4))
        + DigitsValue(SubSeq(t, Len(t) - 2, Len(t) - 1))

(* The percentage a raw confidence is specified to show, in 1/One of a     *)
(* percent: the value times 100 on the 0-1 scale, min(value, 100) above.   *)
PercentToShow(raw) ==
    IF raw <= One THEN 100 * raw
    ELSE IF raw < 100 * One THEN raw ELSE 100 * One
Distance(a, b) == IF a < b THEN b - a ELSE a - b

(* C15: format_confidence returns nothing for an absent confidence, and    *)
(* for a present one the text of the percentage to show with two decimals  *)
(* and a percent sign, no further from it than half a hundredth (0.87 as   *)
(* 87.00%, 95.2 as 95.20%, 150 as 100.00%); the stored row is the same     *)
(* before and after.                                                       *)
C15_StateOfFormat ==
    fmt_out.called =>
        LET raw == fmt_row.confidence
            shown == fmt_out.value
        IN /\ (shown = None) <=> (raw = None)
           /\ raw # None =>
                 /\ IsPercentText(shown[1])
                 /\ 2 * Distance(PercentHundredths(shown[1]) * (One \div 100),
                                 PercentToShow(raw[1])) <= One \div 100
           /\ raw = Some(8700) => shown = Some(<<"8", "7", ".", "0", "0", "%">>)
           /\ raw = Some(952000) => shown = Some(<<"9", "5", ".", "2", "0", "%">>)
           /\ raw = Some(1500000) =>
                 shown = Some(<<"1", "0", "0", ".", "0", "0", "%">>)

C15_ConfidenceDisplay == []C15_StateOfFormat /\ [][fmt_row' = fmt_row]_vars

C15_Witness ==
    /\ fmt_out.called
    /\ fmt_row.confidence = Some(1000625)
    /\ fmt_out.value = Some(<<"1", "0", "0", ".", "0", "0", "%">>)

-----------------------------------------------------------------------------
(* Properties of PaddleOCREngine (PaddleSpec)                              *)

(* The language a hint asks for: the hint without its surrounding blanks,  *)
(* or paddle's default when that is empty or the hint absent.              *)
PaddleLanguageAskedFor(hint) ==
    LanguageToUse([lang |-> hint, engine_name |-> "paddle"])

(* A loaded recognizer was constructed with the instance's language.       *)
C22_StateOfRecognizer ==
    pd_engine.ocr # None => pd_engine.ocr[1].lang = pd_engine.lang

(* What one call does: set_language to another language sets it and drops  *)
(* the recognizer; set_language to the current language with a recognizer  *)
(* loaded changes nothing; run leaves the language and a loaded recognizer *)
(* alone, constructs none when one is loaded and at most one otherwise,    *)
(* and, unless the construction raised, leaves one loaded.                 *)
C22_StepOfRecognizer ==
    pd_calls' = pd_calls + 1 =>
        LET asked == PaddleLanguageAskedFor(pd_last'.arg)
        IN /\ (pd_last'.op = "set_language" /\ asked # pd_engine.lang) =>
                 /\ pd_engine'.lang = asked
                 /\ pd_engine'.ocr = None
                 /\ pd_builds' = pd_builds
           /\ (pd_last'.op = "set_language" /\ asked = pd_engine.lang) =>
                 /\ pd_engine'.lang = pd_engine.lang
                 /\ pd_engine.ocr # None => pd_engine' = pd_engine
                 /\ pd_builds' = pd_builds
           /\ pd_last'.op = "run" =>
                 /\ pd_engine'.lang = pd_engine.lang
                 /\ pd_engine.ocr # None =>
                       pd_engine' = pd_engine /\ pd_builds' = pd_builds
                 /\ pd_builds' \in {pd_builds, pd_builds + 1}
                 /\ pd_last'.outcome # "BuildFailed" =>
                       /\ pd_engine'.ocr # None
                       /\ pd_engine'.ocr[1].lang = pd_engine.lang
                       /\ pd_engine'.ocr[1].id = pd_builds'

(* C22: under any sequence of set_language and run calls on one            *)
(* PaddleOCREngine, a loaded recognizer is one constructed with the        *)
(* instance's current language: a change of language drops it and the next *)
(* run constructs one with the new language, setting the current language  *)
(* leaves a loaded one untouched, and run constructs at most one between   *)
(* two changes of language.                                                *)
C22_RecognizerMatchesLanguage ==
    []C22_StateOfRecognizer /\ [][C22_StepOfRecognizer]_vars

C22_Witness ==
    /\ pd_calls = 4
    /\ pd_builds = 2
    /\ pd_last = PaddleCall("set_language", Some(" eng "), "ok")
    /\ pd_engine = [lang |-> "eng", ocr |-> Some([lang |-> "eng", id |-> 2])]

====
